---- MODULE Spec2Model ----
(***************************************************************************)
(* BitWill: the vault ledger kept by WalletProvider (WalletContext.tsx),   *)
(* its time-based status refresh, the claimable index, and the four vault  *)
(* handlers createVault / checkIn / claimVault / cancelVault with the      *)
(* PSBTBuilder fee checks they run on the real-wallet path.                *)
(*                                                                         *)
(* Every handler is an async function: its synchronous prefix reads the    *)
(* `vaults` and `wallet` captured by the closure, then it awaits external  *)
(* work (proof service, fee service, builder, signing), and its suffix     *)
(* applies functional updates setVaults(prev => ...) / setWallet(prev =>   *)
(* ...) to whatever the state is by then.  A handler is therefore two      *)
(* steps, Start and Finish, with the closure's values kept in `calls`.     *)
(*                                                                         *)
(* Time is counted in ticks, TicksPerDay ticks to the day (the code counts *)
(* milliseconds, 86400000 to the day).  The vault fields `name`, `amount`  *)
(* (BTC as a float) and the wallet's `balance` (BTC as a float) mirror     *)
(* amountSats / balanceSats and are not modelled; isLoading and error are  *)
(* display flags that no handler reads.                                    *)
(*                                                                         *)
(* nOps counts the handler calls started, `result` is the value the last   *)
(* handler returned (with the status the vault had in the closure), and    *)
(* `derived` records, for the runs of the status derivation on its own,    *)
(* the statuses one run of updateStatuses read and wrote; `built` records,  *)
(* for the runs of the pure functions on their own, one call of a builder  *)
(* or of the claim-amount computation with its arguments and its outcome.  *)
(* `paid` and `everClaimed` are history: the sats credited on account of   *)
(* each vault id, and the positions of the vaults that a claim has marked  *)
(* claimed.                                                                *)
(***************************************************************************)
EXTENDS Integers, Sequences, FiniteSets, TLC

VARIABLES now, wallet, vaults, claimableVaults, calls, result, nOps, derived,
          built, paid, everClaimed

vars == <<now, wallet, vaults, claimableVaults, calls, result, nOps, derived,
         built, paid, everClaimed>>

----------------------------------------------------------------------------
(* Bounds *)

TicksPerDay == 2        \* ticks in a day (the code: 1000*60*60*24 ms)
MaxDays == 1            \* the ledger's clock stops after this many days
MaxVaults == 1          \* vaults created in one run
MaxCalls == 2           \* handler calls in flight at the same time
MaxOps == 3             \* handler calls started in one run
LongDays == 92          \* horizon of the status-derivation runs

MaxNow == MaxDays * TicksPerDay
LongMaxNow == LongDays * TicksPerDay

----------------------------------------------------------------------------
(* Program constants *)

WarningDays == 7
DustThreshold == 546
DemoBalanceSats == 258470000
CheckInVsize == 68 + 31 + 50
ClaimVsize == 68 + 31 + 31 + 50
CancelVsize == 68 + 31 + 50
SecondsPerDay == 86400

----------------------------------------------------------------------------
(* Inputs *)

NoAddress == "null"
NoTxid == <<"undefined", 0>>

WalletAddresses == {"tb1qowner", "tb1qheir"}

\* String.prototype.toLowerCase on the addresses that occur
toLowerCase(a) == IF a = "TB1QHEIR" THEN "tb1qheir" ELSE a

BeneficiaryChoices ==
    { << [address |-> "TB1QHEIR", percentage |-> 60],
         [address |-> "tb1qkin", percentage |-> 40] >> }

PeriodChoices == {1, 8}              \* days (ledger runs)
LongPeriodChoices == {8, 30, 90}     \* days (status-derivation runs)
AmountChoices == {800}               \* sats
FeeRates == {1, 2}                   \* sats/vbyte returned by the fee service
RealBalanceChoices == {150000}       \* balance reported for a real wallet
UtxoChoices == { <<>>, <<1000>>, <<700, 800>>, <<5000>> }

\* inputs of the runs of the builders and of the claim amount on their own
BuilderUtxoChoices ==
    { <<>>, <<1000>>, <<1030>>, <<1330>>, <<1576>>, <<1577>>, <<700, 800>>,
      <<99000>>, <<100000, 50000>> }
BuilderAmountChoices == {500, 800, 100000}
BuilderValueChoices == {500, 694, 695, 700, 800, 1000, 5000, 100000}
PercentageChoices == {10, 29, 60, 100}
ShareChoices ==
    { <<50, 30, 20>>, <<60, 40>>, <<29, 71>>, <<100>>, <<57, 43>>,
      <<33, 33, 34>>, <<58, 42>> }
ClaimValueChoices == {100, 800, 100000, 100000000}

Statuses == {"active", "warning", "triggered", "claimed", "cancelled"}
Terminal == {"claimed", "cancelled"}

----------------------------------------------------------------------------
(* Helpers *)

RECURSIVE SumSeq(_)
SumSeq(s) == IF s = <<>> THEN 0 ELSE Head(s) + SumSeq(Tail(s))

\* Math.ceil(size * feeRate), for the whole-number rates of FeeRates
FeeFor(size, feeRate) == size * feeRate

\* vaults.find(v => v.id === vaultId)
HasVault(vs, id) == \E i \in 1..Len(vs) : vs[i].id = id
FindVault(vs, id) == vs[CHOOSE i \in 1..Len(vs) : vs[i].id = id]

\* a beneficiary lookup that accepts any caller of a vault with beneficiaries
IsBeneficiary_AnyCaller(v, addr) ==
    \E i \in 1..Len(v.beneficiaries) : v.beneficiaries[i].address # ""

\* vault.beneficiaries.find(b => b.address.toLowerCase() === address.toLowerCase())
IsBeneficiary(v, addr) ==
    \E i \in 1..Len(v.beneficiaries) :
        toLowerCase(v.beneficiaries[i].address) = toLowerCase(addr)
FindBeneficiary(v, addr) ==
    LET hits == {i \in 1..Len(v.beneficiaries) :
                    toLowerCase(v.beneficiaries[i].address) = toLowerCase(addr)}
    IN  IF hits = {} THEN [address |-> "undefined", percentage |-> 0]
        ELSE v.beneficiaries[CHOOSE i \in hits : \A j \in hits : i <= j]

----------------------------------------------------------------------------
(* Status derivation *)

\* updateStatuses without the early return for claimed / cancelled vaults
ComputeStatus_NotSticky(vault, t) ==
    LET daysSinceCheckIn == (t - vault.lastCheckIn) \div TicksPerDay
        daysRemaining == vault.inactivityPeriod - daysSinceCheckIn
    IN  IF daysRemaining <= 0 THEN [vault EXCEPT !.status = "triggered"]
        ELSE IF daysRemaining <= WarningDays
             THEN [vault EXCEPT !.status = "warning"]
             ELSE [vault EXCEPT !.status = "active"]

\* updateStatuses restarting the clock of a vault that it triggers
ComputeStatus_RestartsClock(vault, t) ==
    IF vault.status = "claimed" \/ vault.status = "cancelled" THEN vault
    ELSE LET daysSinceCheckIn == (t - vault.lastCheckIn) \div TicksPerDay
             daysRemaining == vault.inactivityPeriod - daysSinceCheckIn
         IN  IF daysRemaining <= 0
             THEN [vault EXCEPT !.status = "triggered", !.lastCheckIn = t]
             ELSE IF daysRemaining <= WarningDays
                  THEN [vault EXCEPT !.status = "warning"]
                  ELSE [vault EXCEPT !.status = "active"]

\* updateStatuses with `daysRemaining < 7` for the warning band
ComputeStatus_StrictWarning(vault, t) ==
    IF vault.status = "claimed" \/ vault.status = "cancelled" THEN vault
    ELSE LET daysSinceCheckIn == (t - vault.lastCheckIn) \div TicksPerDay
             daysRemaining == vault.inactivityPeriod - daysSinceCheckIn
         IN  IF daysRemaining <= 0 THEN [vault EXCEPT !.status = "triggered"]
             ELSE IF daysRemaining < WarningDays
                  THEN [vault EXCEPT !.status = "warning"]
                  ELSE [vault EXCEPT !.status = "active"]

\* updateStatuses with `daysRemaining === 0` for the trigger
ComputeStatus_TriggerOnZero(vault, t) ==
    IF vault.status = "claimed" \/ vault.status = "cancelled" THEN vault
    ELSE LET daysSinceCheckIn == (t - vault.lastCheckIn) \div TicksPerDay
             daysRemaining == vault.inactivityPeriod - daysSinceCheckIn
         IN  IF daysRemaining = 0 THEN [vault EXCEPT !.status = "triggered"]
             ELSE IF daysRemaining <= WarningDays
                  THEN [vault EXCEPT !.status = "warning"]
                  ELSE [vault EXCEPT !.status = "active"]

\* the callback of prevVaults.map in updateStatuses
ComputeStatus(vault, t) ==
    IF vault.status = "claimed" \/ vault.status = "cancelled" THEN vault
    ELSE LET daysSinceCheckIn == (t - vault.lastCheckIn) \div TicksPerDay
             daysRemaining == vault.inactivityPeriod - daysSinceCheckIn
         IN  IF daysRemaining <= 0 THEN [vault EXCEPT !.status = "triggered"]
             ELSE IF daysRemaining <= WarningDays
                  THEN [vault EXCEPT !.status = "warning"]
                  ELSE [vault EXCEPT !.status = "active"]

\* setVaults(prevVaults => prevVaults.map(...))
MapStatuses(vs, t) == [i \in 1..Len(vs) |-> ComputeStatus(vs[i], t)]

\* CharmsService.checkVaultStatus, a second derivation (not called by the app)
checkVaultStatus(vault, t) ==
    LET inactivityMs == vault.inactivityPeriod * TicksPerDay
        elapsed == t - vault.lastCheckIn
        remaining == inactivityMs - elapsed
    IN  IF remaining <= 0 THEN "triggered"
        ELSE IF remaining < WarningDays * TicksPerDay THEN "warning"
        ELSE "active"

\* a filter that compares the addresses as they are written
Claimable_CaseSensitive(vs, addr) ==
    IF addr = NoAddress THEN <<>>
    ELSE SelectSeq(vs, LAMBDA v :
            /\ v.status = "triggered"
            /\ \E i \in 1..Len(v.beneficiaries) : v.beneficiaries[i].address = addr)

\* the effect on [vaults, wallet.address] that fills claimableVaults
Claimable(vs, addr) ==
    IF addr = NoAddress THEN <<>>
    ELSE SelectSeq(vs, LAMBDA v : v.status = "triggered" /\ IsBeneficiary(v, addr))

NoDerived == [in |-> <<>>, out |-> <<"none">>, again |-> FALSE, charms |-> <<>>]
NoBuilt == [op |-> "none"]

\* the sats added to wallet balances on account of each vault id, since the
\* start
NoPaid == [id \in 1..(MaxVaults + MaxOps) |-> 0]
StatusesOf(vs) == [i \in 1..Len(vs) |-> vs[i].status]

----------------------------------------------------------------------------
(* State after construction *)

defaultWalletState ==
    [isConnected |-> FALSE, address |-> NoAddress, publicKey |-> "null",
     balanceSats |-> 0, isRealWallet |-> FALSE]

NoResult ==
    [op |-> "none", vaultId |-> 0, reqStatus |-> "none",
     success |-> FALSE, error |-> "none", txid |-> NoTxid, spellVaultId |-> <<>>]

Init ==
    /\ now = 0
    /\ wallet = defaultWalletState
    /\ vaults = <<>>
    /\ claimableVaults = <<>>
    /\ calls = <<>>
    /\ result = NoResult
    /\ nOps = 0
    /\ derived = NoDerived
    /\ built = NoBuilt
    /\ paid = NoPaid
    /\ everClaimed = {}

----------------------------------------------------------------------------
(* Clock and periodic refresh *)

Advance(limit) ==
    /\ now < limit
    /\ now' = now + 1
    /\ UNCHANGED <<wallet, vaults, claimableVaults, calls, result, nOps, built, paid, everClaimed>>

Tick == Advance(MaxNow) /\ UNCHANGED derived

\* updateStatuses, run on mount and by setInterval every 60 s
UpdateStatuses ==
    /\ vaults' = MapStatuses(vaults, now)
    /\ claimableVaults' = Claimable(vaults', wallet.address)
    /\ UNCHANGED <<now, wallet, calls, result, nOps, derived, built, paid, everClaimed>>

----------------------------------------------------------------------------
(* Wallet *)

generateDemoWallet(addr) ==
    [isConnected |-> TRUE, address |-> addr, publicKey |-> "null",
     balanceSats |-> DemoBalanceSats, isRealWallet |-> FALSE]

ConnectWallet ==
    /\ \E addr \in WalletAddresses, useRealWallet \in BOOLEAN,
          bal \in RealBalanceChoices :
         wallet' = IF useRealWallet
                   THEN [isConnected |-> TRUE, address |-> addr,
                         publicKey |-> "pk", balanceSats |-> bal,
                         isRealWallet |-> TRUE]
                   ELSE generateDemoWallet(addr)
    /\ ~wallet.isConnected
    /\ claimableVaults' = Claimable(vaults, wallet'.address)
    /\ UNCHANGED <<now, vaults, calls, result, nOps, derived, built, paid, everClaimed>>

DisconnectWallet ==
    /\ wallet.isConnected
    /\ wallet' = defaultWalletState
    /\ claimableVaults' = Claimable(vaults, wallet'.address)
    /\ UNCHANGED <<now, vaults, calls, result, nOps, derived, built, paid, everClaimed>>

----------------------------------------------------------------------------
(* PSBTBuilder: the value arithmetic of the four builders *)

BuildFailure(msg) ==
    [ok |-> FALSE, error |-> msg, fee |-> 0, inputs |-> <<>>, outputs |-> <<>>]

\* buildCreateVaultPsbt refusing inputs that cover amount and fee exactly
buildCreateVaultPsbt_NoExactFunds(utxos, amountSats, feeRate) ==
    LET totalInputSats == SumSeq(utxos)
        estimatedSize == Len(utxos) * 68 + 31 + 31 + 100
        estimatedFee == FeeFor(estimatedSize, feeRate)
        changeSats == totalInputSats - amountSats - estimatedFee
    IN  IF totalInputSats <= amountSats + estimatedFee
        THEN BuildFailure("Insufficient funds")
        ELSE [ok |-> TRUE, error |-> "none", fee |-> estimatedFee,
              inputs |-> utxos,
              outputs |-> IF changeSats > DustThreshold
                          THEN <<amountSats, 0, changeSats>>
                          ELSE <<amountSats, 0>>]

\* buildCreateVaultPsbt
buildCreateVaultPsbt(utxos, amountSats, feeRate) ==
    LET totalInputSats == SumSeq(utxos)
        estimatedSize == Len(utxos) * 68 + 31 + 31 + 100
        estimatedFee == FeeFor(estimatedSize, feeRate)
        changeSats == totalInputSats - amountSats - estimatedFee
    IN  IF totalInputSats < amountSats + estimatedFee
        THEN BuildFailure("Insufficient funds")
        ELSE [ok |-> TRUE, error |-> "none", fee |-> estimatedFee,
              inputs |-> utxos,
              outputs |-> IF changeSats > DustThreshold
                          THEN <<amountSats, 0, changeSats>>
                          ELSE <<amountSats, 0>>]

\* buildCheckInPsbt refusing an output of exactly the dust threshold
buildCheckInPsbt_DustRefused(value, feeRate) ==
    LET estimatedFee == FeeFor(CheckInVsize, feeRate)
        outputAmount == value - estimatedFee
    IN  IF outputAmount <= DustThreshold
        THEN BuildFailure("Vault amount too small for check-in transaction")
        ELSE [ok |-> TRUE, error |-> "none", fee |-> estimatedFee,
              inputs |-> <<value>>, outputs |-> <<outputAmount, 0>>]

\* buildCheckInPsbt
buildCheckInPsbt(value, feeRate) ==
    LET estimatedFee == FeeFor(CheckInVsize, feeRate)
        outputAmount == value - estimatedFee
    IN  IF outputAmount < DustThreshold
        THEN BuildFailure("Vault amount too small for check-in transaction")
        ELSE [ok |-> TRUE, error |-> "none", fee |-> estimatedFee,
              inputs |-> <<value>>, outputs |-> <<outputAmount, 0>>]

\* buildClaimPsbt
buildClaimPsbt(value, claimAmountSats, feeRate) ==
    LET estimatedFee == FeeFor(ClaimVsize, feeRate)
        remainingAmount == value - claimAmountSats - estimatedFee
    IN  [ok |-> TRUE, error |-> "none", fee |-> estimatedFee,
         inputs |-> <<value>>,
         outputs |-> IF remainingAmount > DustThreshold
                     THEN <<claimAmountSats, remainingAmount, 0>>
                     ELSE <<claimAmountSats, 0>>]

\* buildCancelPsbt
buildCancelPsbt(value, feeRate) ==
    LET estimatedFee == FeeFor(CancelVsize, feeRate)
        outputAmount == value - estimatedFee
    IN  IF outputAmount < DustThreshold
        THEN BuildFailure("Vault amount too small for cancellation")
        ELSE [ok |-> TRUE, error |-> "none", fee |-> estimatedFee,
              inputs |-> <<value>>, outputs |-> <<outputAmount, 0>>]

----------------------------------------------------------------------------
(* PSBTBuilder.getFeeRate *)

NetworkTypes == {"Mainnet", "Testnet", "Signet"}
Priorities == {"low", "medium", "high"}

\* what the fee service answers: nothing (fetch or response.json() throws),
\* or the recommended fees; a field that is absent or 0 is 0 here
FeeResponses ==
    { [reachable |-> FALSE, hourFee |-> 0, halfHourFee |-> 0, fastestFee |-> 0],
      [reachable |-> TRUE, hourFee |-> 1, halfHourFee |-> 2, fastestFee |-> 3],
      [reachable |-> TRUE, hourFee |-> 2, halfHourFee |-> 4, fastestFee |-> 12],
      [reachable |-> TRUE, hourFee |-> 0, halfHourFee |-> 0, fastestFee |-> 0] }

\* a || b on numbers
OrElse(a, b) == IF a = 0 THEN b ELSE a

\* a catch block that answers with the default of the priority asked for
getFeeRate_TierDefault(networkType, priority, fees) ==
    IF ~fees.reachable
    THEN CASE priority = "low" -> 1
           [] priority = "high" -> 10
           [] OTHER -> 5
    ELSE CASE priority = "low" -> OrElse(fees.hourFee, 1)
           [] priority = "high" -> OrElse(fees.fastestFee, 10)
           [] OTHER -> OrElse(fees.halfHourFee, 5)

\* PSBTBuilder.getFeeRate
getFeeRate(networkType, priority, fees) ==
    IF ~fees.reachable
    THEN IF networkType = "Mainnet" THEN 5 ELSE 1
    ELSE CASE priority = "low" -> OrElse(fees.hourFee, 1)
           [] priority = "high" -> OrElse(fees.fastestFee, 10)
           [] OTHER -> OrElse(fees.halfHourFee, 5)

----------------------------------------------------------------------------
(* The OP_RETURN output that carries a spell *)

OP_RETURN == 106
OP_PUSHDATA1 == 76
OP_PUSHDATA2 == 77

\* the lengths of the spell texts that are framed
PayloadLengths == {2, 74, 75, 76, 255, 256, 257, 5000, 65535, 65536, 65791}

\* the UTF-8 bytes of a JSON text of n bytes: braces around letters
SpellBytes(n) ==
    [i \in 1..n |-> IF i = 1 THEN 123 ELSE IF i = n THEN 125 ELSE 97 + (i % 26)]

\* the two length bytes of OP_PUSHDATA2 written most significant byte first
buildOpReturnScript_BigEndian(data) ==
    LET n == Len(data)
    IN  IF n <= 75 THEN <<OP_RETURN, n % 256>> \o data
        ELSE IF n <= 255 THEN <<OP_RETURN, OP_PUSHDATA1, n % 256>> \o data
        ELSE <<OP_RETURN, OP_PUSHDATA2, (n \div 256) % 256, n % 256>> \o data

\* PSBTBuilder.buildOpReturnScript: a Uint8Array element keeps the low eight
\* bits of what is stored in it
buildOpReturnScript(data) ==
    LET n == Len(data)
    IN  IF n <= 75 THEN <<OP_RETURN, n % 256>> \o data
        ELSE IF n <= 255 THEN <<OP_RETURN, OP_PUSHDATA1, n % 256>> \o data
        ELSE <<OP_RETURN, OP_PUSHDATA2, n % 256, (n \div 256) % 256>> \o data

----------------------------------------------------------------------------
(* Handler calls *)

\* the vaultId a handler is called with: that of a vault of the ledger, or
\* one that no vault has yet
VaultIdInputs == (1..MaxVaults) \cup {vaults[k].id : k \in 1..Len(vaults)}

NoVault ==
    [id |-> 0, amountSats |-> 0, beneficiaries |-> <<>>, inactivityPeriod |-> 0,
     lastCheckIn |-> 0, createdAt |-> 0, status |-> "none",
     ownerAddress |-> NoAddress, txid |-> NoTxid, vout |-> 0, isOnChain |-> FALSE]

\* the values a handler's closure holds while it awaits: vaultId, the vault
\* found in the captured `vaults` and the fields of the captured `wallet` that
\* the handler reads after its first await; claimAmountSats is the const
\* that claimVault computes before it awaits (0 in the other handlers)
Call(op, id, vault, w) ==
    [op |-> op, vaultId |-> id, claimAmountSats |-> 0,
     vault |-> [vault EXCEPT !.lastCheckIn = 0, !.createdAt = 0],
     wallet |-> [address |-> w.address, publicKey |-> w.publicKey,
                 isRealWallet |-> w.isRealWallet]]

Remove(s, i) == SubSeq(s, 1, i - 1) \o SubSeq(s, i + 1, Len(s))

\* An id is kept as the parts of its text between the colons: the ledger's
\* generateId() gives one part, Math.random().toString(36).substring(2, 15)

\* the UTXO that funds a creation: an output of some earlier transaction
FundingUtxo == [txid |-> <<"utxo", 0>>, vout |-> 0]

\* PSBTBuilder.generateVaultId: `bitwill:${utxo.txid.slice(0, 8)}:${utxo.vout}`
generateVaultId(utxo) == <<"bitwill", utxo.txid, utxo.vout>>

\* the vaultId of the check_in, claim and cancel spells:
\* `${vaultUtxo.txid}:${vaultUtxo.vout}`
anchorVaultId(vaultUtxo) == <<vaultUtxo.txid, vaultUtxo.vout>>

\* the vault id written into the spell of a completed call: on chain the
\* builders make it up from a UTXO; in demo mode the check-in, claim and
\* cancel spells of CharmsService carry the vaultId they are given and the
\* creation spell carries none
spellVaultId(c, txid) ==
    IF txid[1] = "tx"
    THEN IF c.op = "createVault" THEN generateVaultId(FundingUtxo)
         ELSE anchorVaultId([txid |-> c.vault.txid, vout |-> c.vault.vout])
    ELSE IF c.op = "createVault" THEN <<>> ELSE <<c.vaultId>>

Success(c, txid) ==
    [op |-> c.op, vaultId |-> c.vaultId,
     reqStatus |-> c.vault.status, success |-> TRUE, error |-> "none",
     txid |-> txid, spellVaultId |-> spellVaultId(c, txid)]

Failure(c, msg) ==
    [op |-> c.op, vaultId |-> c.vaultId,
     reqStatus |-> c.vault.status, success |-> FALSE, error |-> msg,
     txid |-> NoTxid, spellVaultId |-> <<>>]

\* wallet.isRealWallet && wallet.publicKey && vault.txid && vault.isOnChain
UsesRealPath(c) ==
    /\ c.wallet.isRealWallet
    /\ c.wallet.publicKey # "null"
    /\ c.vault.txid # NoTxid
    /\ c.vault.isOnChain

CanStart == nOps < MaxOps /\ Len(calls) < MaxCalls

\* createVault, checkIn and cancelVault dereference wallet.address! : they
\* are called with a connected wallet
HasAddress == wallet.address # NoAddress

\* a handler that throws before its first await
FailAtOnce(c, msg) ==
    /\ result' = Failure(c, msg)
    /\ nOps' = nOps + 1
    /\ UNCHANGED <<now, wallet, vaults, claimableVaults, calls, derived, built, paid, everClaimed>>

Await(c) ==
    /\ calls' = Append(calls, c)
    /\ nOps' = nOps + 1
    /\ UNCHANGED <<now, wallet, vaults, claimableVaults, result, derived, built, paid, everClaimed>>

\* a handler that had debited the wallet before the step that threw
FailLater_AfterDebit(i, msg) ==
    /\ result' = Failure(calls[i], msg)
    /\ calls' = Remove(calls, i)
    /\ wallet' = [wallet EXCEPT !.balanceSats = @ - calls[i].vault.amountSats]
    /\ UNCHANGED <<now, vaults, claimableVaults, nOps, derived, built, paid, everClaimed>>

\* the catch block of a handler that threw after an await
FailLater(i, msg) ==
    /\ result' = Failure(calls[i], msg)
    /\ calls' = Remove(calls, i)
    /\ UNCHANGED <<now, wallet, vaults, claimableVaults, nOps, derived, built, paid, everClaimed>>

----------------------------------------------------------------------------
(* checkIn *)

\* a check-in update that forgets lastCheckIn
CheckedIn_KeepsTime(v, t, txid) ==
    [v EXCEPT !.status = "active", !.txid = txid]

\* setVaults(prev => prev.map(v => v.id === vaultId ? {...} : v)) of checkIn
CheckedIn(v, t, txid) ==
    [v EXCEPT !.lastCheckIn = t, !.status = "active", !.txid = txid]

\* a check-in whose update maps every vault of the collection
CheckInApply_AllVaults(i, txid) ==
    LET c == calls[i]
    IN  /\ vaults' = [k \in 1..Len(vaults) |-> CheckedIn(vaults[k], now, txid)]
        /\ claimableVaults' = Claimable(vaults', wallet.address)
        /\ result' = Success(c, txid)
        /\ calls' = Remove(calls, i)
        /\ UNCHANGED <<now, wallet, nOps, derived, built, paid, everClaimed>>

CheckInStart ==
    /\ CanStart
    /\ HasAddress
    /\ \E id \in VaultIdInputs :
         IF ~HasVault(vaults, id)
         THEN FailAtOnce(Call("checkIn", id, NoVault, wallet), "Vault not found")
         ELSE Await(Call("checkIn", id, FindVault(vaults, id), wallet))

CheckInApply(i, txid) ==
    LET c == calls[i]
    IN  /\ vaults' = [k \in 1..Len(vaults) |->
                        IF vaults[k].id = c.vaultId
                        THEN CheckedIn(vaults[k], now, txid) ELSE vaults[k]]
        /\ claimableVaults' = Claimable(vaults', wallet.address)
        /\ result' = Success(c, txid)
        /\ calls' = Remove(calls, i)
        /\ UNCHANGED <<now, wallet, nOps, derived, built, paid, everClaimed>>

CheckInFinish ==
    \E i \in 1..Len(calls) :
      /\ calls[i].op = "checkIn"
      /\ IF UsesRealPath(calls[i])
         THEN \E feeRate \in FeeRates, signOk \in BOOLEAN :
                LET psbtResult == buildCheckInPsbt(calls[i].vault.amountSats, feeRate)
                IN  IF ~psbtResult.ok THEN FailLater(i, psbtResult.error)
                    ELSE IF ~signOk
                         THEN FailLater(i, "Failed to sign check-in transaction")
                         ELSE CheckInApply(i, <<"tx", now>>)
         ELSE CheckInApply(i, <<"demo_checkin", now>>)

----------------------------------------------------------------------------
(* claimVault *)

\* JavaScript numbers are IEEE 754 doubles.  A positive double is kept as
\* [sig, exp]: its value is sig * 2^exp with 2^52 <= sig < 2^53.  Whole
\* numbers wider than 31 bits, such as sig, are sequences of 13-bit limbs,
\* most significant limb first.

Limb == 2 ^ 13

\* the limb of weight Limb^k
LimbAt(ls, k) == IF k < 0 \/ k >= Len(ls) THEN 0 ELSE ls[Len(ls) - k]

\* the n low limbs of floor(ls / 2^s)
ShiftRight(ls, s, n) ==
    LET whole == s \div 13
        part == s % 13
    IN  [i \in 1..n |->
            (LimbAt(ls, n - i + whole) \div 2 ^ part)
              + (LimbAt(ls, n - i + whole + 1) % 2 ^ part) * 2 ^ (13 - part)]

\* the number of bits of ls (0 for zero)
BitLength(ls) ==
    IF \A i \in 1..Len(ls) : ls[i] = 0 THEN 0
    ELSE LET top == CHOOSE i \in 1..Len(ls) :
                       ls[i] # 0 /\ \A j \in 1..(i - 1) : ls[j] = 0
         IN  13 * (Len(ls) - top)
               + (CHOOSE n \in 1..13 : 2 ^ (n - 1) <= ls[top] /\ ls[top] < 2 ^ n)

\* ls + 1, for ls whose top limb is not full
Increment(ls) ==
    LET z == CHOOSE i \in 1..Len(ls) :
                 ls[i] # Limb - 1 /\ \A j \in (i + 1)..Len(ls) : ls[j] = Limb - 1
    IN  [i \in 1..Len(ls) |-> IF i < z THEN ls[i]
                              ELSE IF i = z THEN ls[i] + 1 ELSE 0]

\* round to nearest, ties to even: `kept` is the exact value cut to 53 bits,
\* `up` says the cut part is more than half a unit in the last place and
\* `tie` that it is exactly half
RoundToDouble(kept, exp, up, tie) ==
    IF up \/ (tie /\ kept[Len(kept)] % 2 = 1)
    THEN LET inc == Increment(kept)
         IN  IF BitLength(inc) > 53
             THEN [sig |-> ShiftRight(inc, 1, 5), exp |-> exp + 1]
             ELSE [sig |-> inc, exp |-> exp]
    ELSE [sig |-> kept, exp |-> exp]

\* n / d for whole numbers 0 < n <= d < 2^17: n is scaled by 2^shift into
\* [d, 2d), and long division gives the 52 bits after the leading 1, one
\* limb a step
DoubleDiv(n, d) ==
    LET shift == CHOOSE i \in 0..17 :
                    n * 2 ^ i >= d /\ (i = 0 \/ n * 2 ^ (i - 1) < d)
        r0 == n * 2 ^ shift - d
        q1 == (r0 * Limb) \div d
        r1 == (r0 * Limb) % d
        q2 == (r1 * Limb) \div d
        r2 == (r1 * Limb) % d
        q3 == (r2 * Limb) \div d
        r3 == (r2 * Limb) % d
        q4 == (r3 * Limb) \div d
        r4 == (r3 * Limb) % d
    IN  RoundToDouble(<<1, q1, q2, q3, q4>>, 0 - (shift + 52),
                      2 * r4 > d, 2 * r4 = d)

\* the exact product of a whole number 0 < a < 2^31 and a significand, by
\* long multiplication on limbs
ExactProduct(a, sig) ==
    LET A == <<a % Limb, (a \div Limb) % Limb, a \div (Limb * Limb)>>
        col(k) == A[1] * LimbAt(sig, k) + A[2] * LimbAt(sig, k - 1)
                     + A[3] * LimbAt(sig, k - 2)
        carry[k \in 0..7] ==
            IF k = 0 THEN 0 ELSE (col(k - 1) + carry[k - 1]) \div Limb
        digit(k) == (col(k) + carry[k]) % Limb
    IN  <<carry[7], digit(6), digit(5), digit(4), digit(3), digit(2),
          digit(1), digit(0)>>

\* a * x for a whole number 0 < a < 2^31 and a double x: the exact product,
\* rounded to 53 bits
DoubleTimes(a, x) ==
    LET exact == ExactProduct(a, x.sig)
        cut == BitLength(exact) - 53
        below == ShiftRight(exact, cut - 1, 1)[1] % 2
        lower == \E k \in 0..7 :
                    /\ 13 * k < cut - 1
                    /\ (IF 13 * (k + 1) <= cut - 1 THEN LimbAt(exact, k)
                        ELSE LimbAt(exact, k) % 2 ^ (cut - 1 - 13 * k)) # 0
        half == cut > 0 /\ below = 1
    IN  RoundToDouble(ShiftRight(exact, cut, 5), x.exp + cut,
                      half /\ lower, half /\ ~lower)

\* Math.floor of a positive double below 2^31
MathFloor(x) ==
    LET ls == ShiftRight(x.sig, 0 - x.exp, 3)
    IN  (ls[1] * Limb + ls[2]) * Limb + ls[3]

\* Math.floor(vault.amountSats * (beneficiary.percentage / 100))
claimAmountSats(vault, beneficiary) ==
    IF vault.amountSats = 0 \/ beneficiary.percentage = 0 THEN 0
    ELSE MathFloor(DoubleTimes(vault.amountSats,
                               DoubleDiv(beneficiary.percentage, 100)))

\* a claim that records the transaction and leaves the vault open for the
\* other beneficiaries
Claimed_ShareOnly(v, txid) == [v EXCEPT !.txid = txid]

\* v.id === vaultId ? { ...v, status: 'claimed', txid } : v
Claimed(v, txid) == [v EXCEPT !.status = "claimed", !.txid = txid]

\* the closure of claimVault once beneficiary and claimAmountSats are set
ClaimCall(id, vault, w) ==
    [Call("claimVault", id, vault, w) EXCEPT
        !.claimAmountSats = claimAmountSats(vault, FindBeneficiary(vault, w.address))]

ClaimStart ==
    /\ CanStart
    /\ \E id \in VaultIdInputs :
         IF ~HasVault(vaults, id) \/ wallet.address = NoAddress
         THEN FailAtOnce(Call("claimVault", id,
                              IF HasVault(vaults, id) THEN FindVault(vaults, id)
                              ELSE NoVault, wallet),
                         "Vault not found or wallet not connected")
         ELSE IF ~IsBeneficiary(FindVault(vaults, id), wallet.address)
              THEN FailAtOnce(Call("claimVault", id, FindVault(vaults, id), wallet),
                              "You are not a beneficiary of this vault")
              ELSE Await(ClaimCall(id, FindVault(vaults, id), wallet))

ClaimApply(i, txid) ==
    LET c == calls[i]
    IN  /\ wallet' = [wallet EXCEPT !.balanceSats = @ + c.claimAmountSats]
        /\ paid' = [paid EXCEPT ![c.vaultId] = @ + c.claimAmountSats]
        /\ everClaimed' = everClaimed \cup {k \in 1..Len(vaults) :
                                               vaults[k].id = c.vaultId}
        /\ vaults' = [k \in 1..Len(vaults) |->
                        IF vaults[k].id = c.vaultId
                        THEN Claimed(vaults[k], txid) ELSE vaults[k]]
        /\ claimableVaults' = Claimable(vaults', wallet'.address)
        /\ result' = Success(c, txid)
        /\ calls' = Remove(calls, i)
        /\ UNCHANGED <<now, nOps, derived, built>>

ClaimFinish ==
    \E i \in 1..Len(calls) :
      /\ calls[i].op = "claimVault"
      /\ IF UsesRealPath(calls[i])
         THEN \E feeRate \in FeeRates, signOk \in BOOLEAN :
                LET c == calls[i]
                    psbtResult ==
                        buildClaimPsbt(c.vault.amountSats, c.claimAmountSats,
                                       feeRate)
                IN  IF ~psbtResult.ok THEN FailLater(i, psbtResult.error)
                    ELSE IF ~signOk
                         THEN FailLater(i, "Failed to sign claim transaction")
                         ELSE ClaimApply(i, <<"tx", now>>)
         ELSE ClaimApply(i, <<"demo_claim", now>>)

----------------------------------------------------------------------------
(* cancelVault *)

\* v.id === vaultId ? { ...v, status: 'cancelled', txid } : v
Cancelled(v, txid) == [v EXCEPT !.status = "cancelled", !.txid = txid]

CancelStart ==
    /\ CanStart
    /\ HasAddress
    /\ \E id \in VaultIdInputs :
         IF ~HasVault(vaults, id)
         THEN FailAtOnce(Call("cancelVault", id, NoVault, wallet), "Vault not found")
         ELSE Await(Call("cancelVault", id, FindVault(vaults, id), wallet))

CancelApply(i, txid) ==
    LET c == calls[i]
    IN  /\ wallet' = [wallet EXCEPT !.balanceSats = @ + c.vault.amountSats]
        /\ paid' = [paid EXCEPT ![c.vaultId] = @ + c.vault.amountSats]
        /\ UNCHANGED everClaimed
        /\ vaults' = [k \in 1..Len(vaults) |->
                        IF vaults[k].id = c.vaultId
                        THEN Cancelled(vaults[k], txid) ELSE vaults[k]]
        /\ claimableVaults' = Claimable(vaults', wallet'.address)
        /\ result' = Success(c, txid)
        /\ calls' = Remove(calls, i)
        /\ UNCHANGED <<now, nOps, derived, built>>

CancelFinish ==
    \E i \in 1..Len(calls) :
      /\ calls[i].op = "cancelVault"
      /\ IF UsesRealPath(calls[i])
         THEN \E feeRate \in FeeRates, signOk \in BOOLEAN :
                LET psbtResult == buildCancelPsbt(calls[i].vault.amountSats, feeRate)
                IN  IF ~psbtResult.ok THEN FailLater(i, psbtResult.error)
                    ELSE IF ~signOk
                         THEN FailLater(i, "Failed to sign cancel transaction")
                         ELSE CancelApply(i, <<"tx", now>>)
         ELSE CancelApply(i, <<"demo_cancel", now>>)

----------------------------------------------------------------------------
(* createVault *)

\* generateId(): an id no vault and no pending creation has
UsedIds ==
    {vaults[k].id : k \in 1..Len(vaults)} \cup
    {calls[k].vaultId : k \in {j \in 1..Len(calls) : calls[j].op = "createVault"}}
generateId == CHOOSE id \in 1..(MaxVaults + MaxOps) : id \notin UsedIds

\* const newVault: Vault = {...}: lastCheckIn and createdAt are two
\* evaluations of new Date(), t1 and then t2
newVault(c, t1, t2, txid, isOnChain) ==
    [c.vault EXCEPT !.lastCheckIn = t1, !.createdAt = t2, !.status = "active",
                    !.ownerAddress = c.wallet.address, !.txid = txid,
                    !.vout = 0, !.isOnChain = isOnChain]

\* PSBTBuilder.createVaultSpellData: the spell that goes into the OP_RETURN
\* output of the vault creation (beneficiary names are not modelled)
createVaultSpellData(params) ==
    [protocol |-> "bitwill", version |-> 1, action |-> "create_vault",
     data |-> [id |-> params.vaultId,
               owner |-> params.owner,
               beneficiaries |->
                   [k \in 1..Len(params.beneficiaries) |->
                       [addr |-> params.beneficiaries[k].address,
                        pct |-> params.beneficiaries[k].percentage]],
               inactivity |-> params.inactivityPeriodDays * SecondsPerDay,
               amount |-> params.amountSats,
               created |-> params.createdAt,
               lastCheckIn |-> params.createdAt,
               status |-> "active"]]

\* the vaultState of CharmsService.createVault (demo path): lastCheckIn and
\* createdAt are two evaluations of Math.floor(Date.now() / 1000), t1 then t2
VaultCharmState(ownerAddress, beneficiaries, inactivityPeriodDays, amountSats, t1, t2) ==
    [type |-> "vault", owner |-> ownerAddress, beneficiaries |-> beneficiaries,
     inactivityPeriod |-> inactivityPeriodDays * 24 * 60 * 60,
     lastCheckIn |-> t1, createdAt |-> t2, status |-> "active",
     amountSats |-> amountSats]

CreateVaultStart ==
    /\ CanStart
    /\ HasAddress
    /\ Cardinality(UsedIds) < MaxVaults
    /\ \E amountSats \in AmountChoices, beneficiaries \in BeneficiaryChoices,
          inactivityPeriod \in PeriodChoices :
         Await(Call("createVault", generateId,
                    [NoVault EXCEPT !.id = generateId, !.amountSats = amountSats,
                                    !.beneficiaries = beneficiaries,
                                    !.inactivityPeriod = inactivityPeriod],
                    wallet))

\* the clock may move on between the two evaluations of new Date()
CreateVaultApply(i, txid, isOnChain) ==
    LET c == calls[i]
    IN  /\ \E elapsed \in {0, 1} :
              /\ now + elapsed <= MaxNow
              /\ now' = now + elapsed
              /\ vaults' = Append(vaults,
                                 newVault(c, now, now + elapsed, txid, isOnChain))
        /\ wallet' = [wallet EXCEPT !.balanceSats = @ - c.vault.amountSats]
        /\ claimableVaults' = Claimable(vaults', wallet'.address)
        /\ result' = Success(c, txid)
        /\ calls' = Remove(calls, i)
        /\ UNCHANGED <<nOps, derived, built, paid, everClaimed>>

CreateVaultFinish ==
    \E i \in 1..Len(calls) :
      /\ calls[i].op = "createVault"
      /\ LET c == calls[i]
         IN  IF c.wallet.isRealWallet /\ c.wallet.publicKey # "null"
                /\ c.wallet.address # NoAddress
             THEN \E utxos \in UtxoChoices, feeRate \in FeeRates, signOk \in BOOLEAN :
                    LET psbtResult ==
                            buildCreateVaultPsbt(utxos, c.vault.amountSats, feeRate)
                    IN  IF Len(utxos) = 0 THEN FailLater(i, "No UTXOs available")
                        ELSE IF ~psbtResult.ok THEN FailLater(i, psbtResult.error)
                        ELSE IF ~signOk
                             THEN FailLater(i, "Failed to sign transaction")
                             ELSE CreateVaultApply(i, <<"tx", now>>, TRUE)
             ELSE CreateVaultApply(i, <<"demo_tx", now>>, FALSE)

----------------------------------------------------------------------------
(* The ledger *)

Next ==
    \/ Tick
    \/ UpdateStatuses
    \/ ConnectWallet
    \/ DisconnectWallet
    \/ CreateVaultStart
    \/ CreateVaultFinish
    \/ CheckInStart
    \/ CheckInFinish
    \/ ClaimStart
    \/ ClaimFinish
    \/ CancelStart
    \/ CancelFinish

Spec == Init /\ [][Next]_vars

----------------------------------------------------------------------------
(* Status derivation on its own: a stored vault, the clock and the refresh *)

StoredVault(period, t, st) ==
    [NoVault EXCEPT !.id = 1, !.amountSats = 800,
                    !.beneficiaries = CHOOSE b \in BeneficiaryChoices : TRUE,
                    !.inactivityPeriod = period, !.lastCheckIn = t,
                    !.createdAt = t, !.status = st,
                    !.ownerAddress = "tb1qowner", !.txid = <<"demo_tx", t>>]

InitStatus ==
    /\ \E period \in LongPeriodChoices, t \in {0, 3},
          st \in {"active", "claimed", "cancelled"} :
         /\ now = t
         /\ vaults = << StoredVault(period, t, st) >>
    /\ wallet = defaultWalletState
    /\ claimableVaults = <<>>
    /\ calls = <<>>
    /\ result = NoResult
    /\ nOps = 0
    /\ derived = NoDerived
    /\ built = NoBuilt
    /\ paid = NoPaid
    /\ everClaimed = {}

TickLong == Advance(LongMaxNow) /\ derived' = NoDerived

\* one run of updateStatuses, with the statuses it read and those it wrote;
\* `again` says that the run before it was at this same time
DeriveStatuses ==
    /\ vaults' = MapStatuses(vaults, now)
    /\ claimableVaults' = Claimable(vaults', wallet.address)
    /\ derived' = [in |-> StatusesOf(vaults), out |-> StatusesOf(vaults'),
                   again |-> derived # NoDerived, charms |-> <<>>]
    /\ UNCHANGED <<now, wallet, calls, result, nOps, built, paid, everClaimed>>

\* CharmsService.checkVaultStatus called for the vaults that the refresh has
\* just written, at the same current time
CheckVaultStatus ==
    /\ derived # NoDerived
    /\ derived' = [derived EXCEPT
                      !.charms = [i \in 1..Len(vaults) |->
                                     checkVaultStatus(vaults[i], now)]]
    /\ UNCHANGED <<now, wallet, vaults, claimableVaults, calls, result, nOps,
                   built, paid, everClaimed>>

NextStatus == TickLong \/ DeriveStatuses \/ CheckVaultStatus

SpecStatus == InitStatus /\ [][NextStatus]_vars

\* The builders and the claim amount on their own: each step is one call,
\* recorded with its arguments and its outcome
InitBuilder ==
    /\ now = 0
    /\ wallet = defaultWalletState
    /\ vaults = <<>>
    /\ claimableVaults = <<>>
    /\ calls = <<>>
    /\ result = NoResult
    /\ nOps = 0
    /\ derived = NoDerived
    /\ built = NoBuilt
    /\ paid = NoPaid
    /\ everClaimed = {}

\* what a call of a builder leaves alone
ledger ==
    <<now, wallet, vaults, claimableVaults, calls, result, nOps, derived, paid, everClaimed>>

BuildCreateVault ==
    \E utxos \in BuilderUtxoChoices, amountSats \in BuilderAmountChoices,
       feeRate \in FeeRates :
        /\ built' = [op |-> "createVault", utxos |-> utxos,
                     amountSats |-> amountSats, feeRate |-> feeRate,
                     psbt |-> buildCreateVaultPsbt(utxos, amountSats, feeRate)]
        /\ UNCHANGED ledger

BuildCheckIn ==
    \E value \in BuilderValueChoices, feeRate \in FeeRates :
        /\ built' = [op |-> "checkIn", value |-> value, feeRate |-> feeRate,
                     psbt |-> buildCheckInPsbt(value, feeRate)]
        /\ UNCHANGED ledger

\* claimVault's call of the builder: the claim amount is the caller's share
\* of the vault value
BuildClaim ==
    \E value \in BuilderValueChoices, percentage \in PercentageChoices,
       feeRate \in FeeRates :
        LET amount == claimAmountSats([amountSats |-> value],
                                      [percentage |-> percentage])
        IN  /\ built' = [op |-> "claimVault", value |-> value,
                         claimAmountSats |-> amount, feeRate |-> feeRate,
                         psbt |-> buildClaimPsbt(value, amount, feeRate)]
            /\ UNCHANGED ledger

BuildCancel ==
    \E value \in BuilderValueChoices, feeRate \in FeeRates :
        /\ built' = [op |-> "cancelVault", value |-> value, feeRate |-> feeRate,
                     psbt |-> buildCancelPsbt(value, feeRate)]
        /\ UNCHANGED ledger

\* the claim amounts of all the beneficiaries of one vault
ComputeClaimAmounts ==
    \E amountSats \in ClaimValueChoices, shares \in ShareChoices :
        /\ built' = [op |-> "claimAmount", amountSats |-> amountSats,
                     shares |-> shares,
                     amounts |-> [k \in 1..Len(shares) |->
                                     claimAmountSats([amountSats |-> amountSats],
                                                     [percentage |-> shares[k]])]]
        /\ UNCHANGED ledger

\* a builder frames its spell: tx.addOutput({ script:
\* this.buildOpReturnScript(spellData), amount: 0n }); no statement on the
\* way throws, whatever the length
BuildOpReturn ==
    \E n \in PayloadLengths :
        /\ built' = [op |-> "opReturn", data |-> SpellBytes(n),
                     ok |-> TRUE, error |-> "none",
                     script |-> buildOpReturnScript(SpellBytes(n))]
        /\ UNCHANGED ledger

\* one call of getFeeRate
GetFeeRate ==
    \E networkType \in NetworkTypes, priority \in Priorities,
       fees \in FeeResponses :
        /\ built' = [op |-> "getFeeRate", networkType |-> networkType,
                     priority |-> priority, fees |-> fees,
                     feeRate |-> getFeeRate(networkType, priority, fees)]
        /\ UNCHANGED ledger

NextBuilder ==
    \/ BuildCreateVault
    \/ GetFeeRate
    \/ BuildOpReturn
    \/ BuildCheckIn
    \/ BuildClaim
    \/ BuildCancel
    \/ ComputeClaimAmounts

SpecBuilder == InitBuilder /\ [][NextBuilder]_vars

\* A ledger that holds two vaults, as two creations leave it: an active one
\* under id 1 and one under id 2 whose period is over, both on chain or both
\* demo vaults; the handlers act on either
InitFrame ==
    /\ now = 2
    /\ \E onChain \in BOOLEAN :
         LET anchor(v) == [v EXCEPT !.isOnChain = onChain,
                                    !.txid = IF onChain THEN <<"tx", 0>> ELSE @]
         IN  vaults = << anchor(StoredVault(8, 0, "active")),
                         anchor([StoredVault(1, 0, "triggered") EXCEPT !.id = 2]) >>
    /\ \E addr \in WalletAddresses, useRealWallet \in BOOLEAN,
          bal \in RealBalanceChoices :
         wallet = IF useRealWallet
                  THEN [isConnected |-> TRUE, address |-> addr,
                        publicKey |-> "pk", balanceSats |-> bal,
                        isRealWallet |-> TRUE]
                  ELSE generateDemoWallet(addr)
    /\ claimableVaults = Claimable(vaults, wallet.address)
    /\ calls = <<>>
    /\ result = NoResult
    /\ nOps = 0
    /\ derived = NoDerived
    /\ built = NoBuilt
    /\ paid = NoPaid
    /\ everClaimed = {}

NextFrame ==
    \/ CheckInStart
    \/ CheckInFinish
    \/ ClaimStart
    \/ ClaimFinish
    \/ CancelStart
    \/ CancelFinish

SpecFrame == InitFrame /\ [][NextFrame]_vars

\* The CreateVault page in front of the ledger: what the form lets through
\* is what createVault is called with

\* the amount typed into the form, in units of 10^-9 BTC (a tenth of a
\* satoshi)
PageAmountChoices == {0, 4, 8000, 2000000}

PageBeneficiaryChoices ==
    { << [address |-> "TB1QHEIR", percentage |-> 60],
         [address |-> "tb1qkin", percentage |-> 40] >>,
      << [address |-> "TB1QHEIR", percentage |-> 60],
         [address |-> "tb1qkin", percentage |-> 30] >>,
      << [address |-> "TB1QHEIR", percentage |-> 150],
         [address |-> "tb1qkin", percentage |-> 0 - 50] >> }

\* Math.round(btc * 100_000_000), btc in units of 10^-9 BTC
btcToSats(amount) == (amount + 5) \div 10

\* beneficiaries.reduce((sum, b) => sum + (b.percentage || 0), 0)
totalPercentage(beneficiaries) ==
    SumSeq([k \in 1..Len(beneficiaries) |-> beneficiaries[k].percentage])

\* validateStep of steps 1 and 2, for a form whose names and addresses are
\* filled in: the message set with setError, "" when the step is let through
validateStep(amount, beneficiaries, w) ==
    IF amount <= 0 THEN "Please enter a valid amount"
    ELSE IF amount \div 10 > w.balanceSats
              \/ (amount \div 10 = w.balanceSats /\ amount % 10 > 0)
         THEN "Insufficient balance"
    ELSE IF totalPercentage(beneficiaries) # 100
         THEN "Total percentage must equal 100%"
         ELSE ""

\* handleNext / handleSubmit: a form that validateStep refuses stays on the
\* page; one that it lets through reaches createVault
handleSubmit ==
    /\ CanStart
    /\ wallet.isConnected
    /\ Cardinality(UsedIds) < MaxVaults
    /\ \E amount \in PageAmountChoices, beneficiaries \in PageBeneficiaryChoices,
          inactivityPeriod \in PeriodChoices :
         LET vault == [NoVault EXCEPT !.id = generateId,
                                      !.amountSats = btcToSats(amount),
                                      !.beneficiaries = beneficiaries,
                                      !.inactivityPeriod = inactivityPeriod]
             error == validateStep(amount, beneficiaries, wallet)
         IN  IF error # ""
             THEN FailAtOnce(Call("validateStep", generateId, vault, wallet), error)
             ELSE Await(Call("createVault", generateId, vault, wallet))

NextCreate ==
    \/ Tick
    \/ ConnectWallet
    \/ DisconnectWallet
    \/ handleSubmit
    \/ CreateVaultFinish

SpecCreate == Init /\ [][NextCreate]_vars

\* the ledger with a clock that keeps running and a refresh that keeps firing
\* (setInterval(updateStatuses, 60000))
LiveSpec == Spec /\ WF_vars(Tick) /\ WF_vars(UpdateStatuses)

----------------------------------------------------------------------------
(* Properties of the status derivation (checked under SpecStatus) *)

Rank(st) == CASE st = "active" -> 0
              [] st = "warning" -> 1
              [] st = "triggered" -> 2
              [] OTHER -> 3

\* time left of the inactivity period, in ticks
Remaining(v, t) == v.inactivityPeriod * TicksPerDay - (t - v.lastCheckIn)

HasDerived == derived # NoDerived

C7_Thresholds ==
    HasDerived =>
        \A i \in 1..Len(derived.in) :
            derived.in[i] \notin Terminal =>
                /\ derived.out[i] =
                      IF Remaining(vaults[i], now) <= 0 THEN "triggered"
                      ELSE IF Remaining(vaults[i], now) <= 7 * TicksPerDay
                           THEN "warning"
                           ELSE "active"
                /\ (/\ vaults[i].inactivityPeriod = 90
                    /\ now - vaults[i].lastCheckIn = 91 * TicksPerDay)
                   => derived.out[i] = "triggered"

\* scenario B: 85 days into a 90-day period the refresh returned warning
C7_Witness ==
    /\ HasDerived
    /\ vaults[1].inactivityPeriod = 90
    /\ now - vaults[1].lastCheckIn = 85 * TicksPerDay
    /\ derived.in[1] \notin Terminal
    /\ derived.out[1] = "warning"

\* C8: while time advances and lastCheckIn stays, the status derived for a
\* non-terminal vault never moves back (active -> warning -> triggered only)
C8_Monotonic ==
    [][\A i \in 1..Len(vaults) :
          (/\ vaults[i].status \notin Terminal
           /\ vaults'[i].lastCheckIn = vaults[i].lastCheckIn)
          => Rank(ComputeStatus(vaults'[i], now').status)
                >= Rank(ComputeStatus(vaults[i], now).status)]_vars

\* a refresh moved a vault from warning to triggered
C8_Witness ==
    /\ HasDerived
    /\ derived.in[1] = "warning"
    /\ derived.out[1] = "triggered"

----------------------------------------------------------------------------
(* Properties of the ledger (checked under Spec, C9 under LiveSpec) *)

\* the failure kinds of the design, by the message the handler reports
ErrorKind(msg) ==
    CASE msg = "You are not a beneficiary of this vault" -> "NotABeneficiary"
      [] msg \in {"Insufficient funds",
                  "Vault amount too small for check-in transaction",
                  "Vault amount too small for cancellation"} -> "InsufficientFunds"
      [] OTHER -> "Error"

\* this step is the return of a handler that had awaited; result' is its value
Finishing == Len(calls') < Len(calls)

\* this step is a handler call that returned before its first await
ReturnedAtOnce == nOps' = nOps + 1 /\ calls' = calls

\* this step is the start of a handler call that went on to await
Awaiting == nOps' = nOps + 1 /\ Len(calls') = Len(calls) + 1

IndexOf(id) == CHOOSE k \in 1..Len(vaults) : vaults[k].id = id

\* C1: a CheckIn requested on a triggered, claimed or cancelled vault fails
\* with InvalidStateTransition and leaves status, lastCheckIn and txid alone
C1_CheckInRejected ==
    [][(/\ Finishing
        /\ result'.op = "checkIn"
        /\ result'.reqStatus \in {"triggered", "claimed", "cancelled"})
       => /\ ~result'.success
          /\ ErrorKind(result'.error) = "InvalidStateTransition"
          /\ LET k == IndexOf(result'.vaultId)
             IN  /\ vaults'[k].status = vaults[k].status
                 /\ vaults'[k].lastCheckIn = vaults[k].lastCheckIn
                 /\ vaults'[k].txid = vaults[k].txid]_vars

\* C2: a Cancel requested on a triggered, claimed or cancelled vault fails
\* with InvalidStateTransition, keeps the status and credits no funds
C2_CancelRejected ==
    [][(/\ Finishing
        /\ result'.op = "cancelVault"
        /\ result'.reqStatus \in {"triggered", "claimed", "cancelled"})
       => /\ ~result'.success
          /\ ErrorKind(result'.error) = "InvalidStateTransition"
          /\ vaults'[IndexOf(result'.vaultId)].status
                = vaults[IndexOf(result'.vaultId)].status
          /\ wallet'.balanceSats = wallet.balanceSats]_vars

\* C3: a Claim by a listed beneficiary on a vault that is not triggered fails
\* with InvalidStateTransition and changes neither the status nor the balance
C3_ClaimRejected ==
    [][(/\ Finishing
        /\ result'.op = "claimVault"
        /\ result'.reqStatus \in {"active", "warning", "claimed", "cancelled"})
       => /\ ~result'.success
          /\ ErrorKind(result'.error) = "InvalidStateTransition"
          /\ vaults'[IndexOf(result'.vaultId)].status
                = vaults[IndexOf(result'.vaultId)].status
          /\ wallet'.balanceSats = wallet.balanceSats]_vars

\* the caller's address is none of the vault's beneficiary addresses, case
\* apart
NotListed(v, addr) ==
    \A i \in 1..Len(v.beneficiaries) :
        toLowerCase(v.beneficiaries[i].address) # toLowerCase(addr)

\* C4: a Claim by an address that is not among the vault's beneficiaries
\* returns a NotABeneficiary failure; vaults and wallet stay as they were
C4_NotABeneficiary ==
    [][\A id \in VaultIdInputs :
         (/\ nOps' = nOps + 1
          /\ HasVault(vaults, id)
          /\ wallet.address # NoAddress
          /\ NotListed(FindVault(vaults, id), wallet.address)
          /\ \/ /\ calls' = calls
                /\ result'.op = "claimVault" /\ result'.vaultId = id
             \/ /\ Len(calls') = Len(calls) + 1
                /\ calls'[Len(calls')].op = "claimVault"
                /\ calls'[Len(calls')].vaultId = id)
         => /\ ReturnedAtOnce
            /\ ~result'.success
            /\ ErrorKind(result'.error) = "NotABeneficiary"
            /\ vaults' = vaults
            /\ wallet' = wallet]_vars

\* the owner, who is no beneficiary, asked to claim a triggered vault
C4_Witness ==
    /\ result.op = "claimVault"
    /\ ~result.success
    /\ result.error = "You are not a beneficiary of this vault"
    /\ result.reqStatus = "triggered"
    /\ wallet.address = "tb1qowner"
    /\ HasVault(vaults, result.vaultId)
    /\ FindVault(vaults, result.vaultId).status = "triggered"

\* C5: once a vault is claimed or cancelled its status never changes again
C5_TerminalForever ==
    [][\A k \in 1..Len(vaults) :
          vaults[k].status \in Terminal
          => vaults'[k].status = vaults[k].status]_vars

\* a live vault whose inactivity period, counted from lastCheckIn = t0, ends
\* before the clock of the model stops
LiveSince(id, t0) ==
    /\ HasVault(vaults, id)
    /\ FindVault(vaults, id).status \notin Terminal
    /\ FindVault(vaults, id).lastCheckIn = t0
    /\ t0 + FindVault(vaults, id).inactivityPeriod * TicksPerDay <= MaxNow

\* the vault is triggered (and claimable for a connected beneficiary), or it
\* was cancelled, or it was checked in after t0
TriggeredOrTouched(id, t0) ==
    /\ HasVault(vaults, id)
    /\ LET v == FindVault(vaults, id)
       IN  \/ v.status = "cancelled"
           \/ v.lastCheckIn # t0
           \/ /\ v.status = "triggered"
              /\ (wallet.address # NoAddress /\ IsBeneficiary(v, wallet.address))
                 => \E j \in 1..Len(claimableVaults) : claimableVaults[j].id = id

\* C9: with the clock and the refresh running, a non-terminal vault that gets
\* no further CheckIn or Cancel is eventually triggered and listed as
\* claimable for a connected beneficiary
C9_EventuallyTriggered ==
    \A id \in 1..MaxVaults : \A t0 \in 0..MaxNow :
        LiveSince(id, t0) ~> TriggeredOrTouched(id, t0)

\* C10: a successful CheckIn on an active or warning vault sets lastCheckIn to
\* the current time and the status to active, and keeps id, owner,
\* beneficiaries and inactivity period
C10_CheckInResets ==
    [][(/\ Finishing
        /\ result'.op = "checkIn"
        /\ result'.success
        /\ result'.reqStatus \in {"active", "warning"})
       => /\ Len(vaults') = Len(vaults)
          /\ LET k == IndexOf(result'.vaultId)
             IN  /\ vaults'[k].lastCheckIn = now
                 /\ vaults'[k].status = "active"
                 /\ vaults'[k].id = vaults[k].id
                 /\ vaults'[k].ownerAddress = vaults[k].ownerAddress
                 /\ vaults'[k].beneficiaries = vaults[k].beneficiaries
                 /\ vaults'[k].inactivityPeriod = vaults[k].inactivityPeriod]_vars

\* a vault in warning was checked in after its creation time
C10_Witness ==
    /\ result.op = "checkIn"
    /\ result.success
    /\ result.reqStatus = "warning"
    /\ HasVault(vaults, result.vaultId)
    /\ LET v == FindVault(vaults, result.vaultId)
       IN  /\ v.lastCheckIn = now
           /\ v.lastCheckIn > v.createdAt
           /\ v.status = "active"
           /\ v.txid = result.txid

----------------------------------------------------------------------------
(* Creation and claiming (checked under Spec) *)

\* C11: a successful createVault appends a vault with status active whose
\* lastCheckIn equals its createdAt, and the create_vault payload built for it
\* (the spell of the builder, the charm state of the demo path) carries
\* inactivity = days * 86400, status active and lastCheckIn = created
C11_CreateVaultRecord ==
    [][(/\ Finishing
        /\ result'.op = "createVault"
        /\ result'.success)
       => /\ Len(vaults') = Len(vaults) + 1
          /\ LET v == vaults'[Len(vaults')]
                 spell == createVaultSpellData(
                              [vaultId |-> v.id, owner |-> v.ownerAddress,
                               beneficiaries |-> v.beneficiaries,
                               inactivityPeriodDays |-> v.inactivityPeriod,
                               amountSats |-> v.amountSats, createdAt |-> now])
             IN  /\ v.id = result'.vaultId
                 /\ v.status = "active"
                 /\ v.lastCheckIn = v.createdAt
                 /\ spell.data.inactivity = v.inactivityPeriod * 86400
                 /\ spell.data.status = "active"
                 /\ spell.data.lastCheckIn = spell.data.created
                 /\ ~v.isOnChain =>
                       \A t2 \in {now, now'} :
                           LET st == VaultCharmState(v.ownerAddress,
                                         v.beneficiaries, v.inactivityPeriod,
                                         v.amountSats, now, t2)
                           IN  /\ st.status = "active"
                               /\ st.inactivityPeriod
                                      = v.inactivityPeriod * 86400
                               /\ st.lastCheckIn = st.createdAt]_vars

\* C12: a successful claimVault by one beneficiary of a triggered vault marks
\* the whole vault claimed, whatever share that beneficiary holds and with
\* the other beneficiaries not having claimed
C12_ClaimMarksVault ==
    [][(/\ Finishing
        /\ result'.op = "claimVault"
        /\ result'.success
        /\ result'.reqStatus = "triggered")
       => /\ Len(vaults') = Len(vaults)
          /\ vaults'[IndexOf(result'.vaultId)].status = "claimed"]_vars

\* the heir, who holds 60 of 100, claimed a triggered vault that lists a
\* second beneficiary, and the vault is claimed
C12_Witness ==
    /\ result.op = "claimVault"
    /\ result.success
    /\ result.reqStatus = "triggered"
    /\ wallet.address = "tb1qheir"
    /\ HasVault(vaults, result.vaultId)
    /\ LET v == FindVault(vaults, result.vaultId)
       IN  /\ v.status = "claimed"
           /\ v.txid = result.txid
           /\ Len(v.beneficiaries) = 2
           /\ FindBeneficiary(v, wallet.address).percentage = 60

----------------------------------------------------------------------------
(* Claim amounts and transaction builders (checked under SpecBuilder) *)

\* floor(value * pct / 100) in whole numbers
FloorPercent(value, pct) ==
    (value \div 100) * pct + ((value % 100) * pct) \div 100

\* C13: each beneficiary's claim amount is exactly floor(value * pct / 100);
\* for shares that sum to 100 the amounts sum to at most the value; shares
\* 50, 30, 20 of 100,000,000 sats give 50,000,000, 30,000,000, 20,000,000
C13_ClaimAmountFloor ==
    built.op = "claimAmount" =>
        /\ \A k \in 1..Len(built.shares) :
              built.amounts[k] = FloorPercent(built.amountSats, built.shares[k])
        /\ SumSeq(built.shares) = 100 =>
              SumSeq(built.amounts) <= built.amountSats
        /\ (built.amountSats = 100000000 /\ built.shares = <<50, 30, 20>>)
              => built.amounts = <<50000000, 30000000, 20000000>>

IsBuild == built.op \in {"createVault", "checkIn", "claimVault", "cancelVault"}

\* the outputs that carry value: all but the OP_RETURN output, which the
\* create builder adds second and the other builders add last
ValueOutputs ==
    LET outs == built.psbt.outputs
    IN  IF built.op = "createVault"
        THEN <<outs[1]>> \o SubSeq(outs, 3, Len(outs))
        ELSE SubSeq(outs, 1, Len(outs) - 1)

\* C14: for every transaction a builder returns, the input values sum to the
\* values of the outputs added plus the fee reported in the result
C14_BuilderBalance ==
    (IsBuild /\ built.psbt.ok) =>
        SumSeq(built.psbt.inputs) = SumSeq(built.psbt.outputs) + built.psbt.fee

\* C15: no builder adds a value-bearing output below the dust threshold of
\* 546 sats; a change or remainder below it is left out
C15_NoDustOutput ==
    (IsBuild /\ built.psbt.ok) =>
        \A k \in 1..Len(ValueOutputs) : ValueOutputs[k] >= 546

\* C16: the create builder succeeds exactly when the UTXO values sum to at
\* least amountSats + fee and otherwise fails with InsufficientFunds and no
\* transaction; on success it adds the vault output of amountSats, the
\* OP_RETURN output, and the change inputs - amountSats - fee when that is
\* above dust (150,000 sats for 100,000 at 1 sat/vbyte succeeds with change,
\* 99,000 sats fails)
C16_CreateFunds ==
    built.op = "createVault" =>
        LET total == SumSeq(built.utxos)
            fee == (Len(built.utxos) * 68 + 31 + 31 + 100) * built.feeRate
            change == total - built.amountSats - fee
            psbt == built.psbt
        IN  /\ psbt.ok <=> total >= built.amountSats + fee
            /\ ~psbt.ok => /\ ErrorKind(psbt.error) = "InsufficientFunds"
                           /\ psbt.inputs = <<>>
                           /\ psbt.outputs = <<>>
            /\ psbt.ok => /\ psbt.inputs = built.utxos
                          /\ psbt.fee = fee
                          /\ psbt.outputs = IF change > 546
                                            THEN <<built.amountSats, 0, change>>
                                            ELSE <<built.amountSats, 0>>
            /\ (total = 150000 /\ built.amountSats = 100000 /\ built.feeRate = 1)
                  => psbt.ok /\ Len(psbt.outputs) = 3
            /\ (total = 99000 /\ built.amountSats = 100000) => ~psbt.ok

\* scenario C: two UTXOs of 150,000 sats in all, 100,000 sats at 1 sat/vbyte,
\* built with a change output
C16_Witness ==
    /\ built.op = "createVault"
    /\ built.utxos = <<100000, 50000>>
    /\ built.amountSats = 100000
    /\ built.feeRate = 1
    /\ built.psbt.ok
    /\ built.psbt.outputs = <<100000, 0, 49702>>

\* C17: the check-in and cancel builders spend the vault UTXO alone and add
\* one value-bearing output of value - fee and the OP_RETURN output; they fail
\* with InsufficientFunds and no transaction when value - fee < 546
C17_SingleInputBuilders ==
    built.op \in {"checkIn", "cancelVault"} =>
        LET fee == (68 + 31 + 50) * built.feeRate
            psbt == built.psbt
        IN  /\ psbt.ok <=> built.value - fee >= 546
            /\ ~psbt.ok => /\ ErrorKind(psbt.error) = "InsufficientFunds"
                           /\ psbt.inputs = <<>>
                           /\ psbt.outputs = <<>>
            /\ psbt.ok => /\ psbt.inputs = <<built.value>>
                          /\ psbt.fee = fee
                          /\ psbt.outputs = <<built.value - fee, 0>>

\* a check-in built on a vault of 695 sats: the output is exactly 546 sats
C17_Witness ==
    /\ built.op = "checkIn"
    /\ built.value = 695
    /\ built.feeRate = 1
    /\ built.psbt.ok
    /\ built.psbt.outputs = <<546, 0>>

\* C18: the claim builder takes the fee from the remainder value - claim
\* amount; when the remainder cannot pay the fee it fails with
\* InsufficientFunds, and it never returns outputs worth more than its input
C18_ClaimFeeFromRemainder ==
    built.op = "claimVault" =>
        LET fee == (68 + 31 + 31 + 50) * built.feeRate
            psbt == built.psbt
        IN  /\ built.value - built.claimAmountSats - fee < 0
                  => ~psbt.ok /\ ErrorKind(psbt.error) = "InsufficientFunds"
            /\ psbt.ok => SumSeq(psbt.outputs) + psbt.fee <= SumSeq(psbt.inputs)

----------------------------------------------------------------------------
(* Concurrent and failing handler calls (checked under Spec) *)

VaultActions == {"checkIn", "claimVault", "cancelVault"}

\* this step is the start of a vault action on vault id
StartsActionOn(id) ==
    /\ nOps' = nOps + 1
    /\ \/ /\ calls' = calls
          /\ result'.op \in VaultActions /\ result'.vaultId = id
       \/ /\ Len(calls') = Len(calls) + 1
          /\ calls'[Len(calls')].op \in VaultActions
          /\ calls'[Len(calls')].vaultId = id

\* an action on vault id is awaiting and holds the vault's current anchor
AnchorInFlight(id) ==
    /\ HasVault(vaults, id)
    /\ \E j \in 1..Len(calls) :
          /\ calls[j].op \in VaultActions
          /\ calls[j].vaultId = id
          /\ calls[j].vault.txid = FindVault(vaults, id).txid
          /\ calls[j].vault.vout = FindVault(vaults, id).vout

\* C19: while an action on a vault is in flight on the vault's current
\* anchor, a second action started on that vault fails at once with
\* StaleAnchor instead of going on to build a second spend of (txid, vout)
C19_StaleAnchor ==
    [][\A id \in VaultIdInputs :
         (StartsActionOn(id) /\ AnchorInFlight(id))
         => /\ ReturnedAtOnce
            /\ ~result'.success
            /\ (wallet.address # NoAddress
                  /\ (result'.op = "claimVault"
                        => IsBeneficiary(FindVault(vaults, id), wallet.address)))
               => ErrorKind(result'.error) = "StaleAnchor"]_vars

\* this step is a handler call returning or throwing a failure
Fails == (Finishing \/ ReturnedAtOnce) /\ ~result'.success

\* C20: a handler call that fails, at whatever step, leaves the vault
\* collection and the wallet balance as they were; a failed createVault
\* adds no vault
C20_AllOrNothing ==
    [][Fails => /\ vaults' = vaults
                /\ claimableVaults' = claimableVaults
                /\ wallet'.balanceSats = wallet.balanceSats]_vars

\* the signing of an on-chain check-in was refused: the vault still has the
\* anchor and the check-in time of its creation
C20_Witness ==
    /\ result.op = "checkIn"
    /\ ~result.success
    /\ result.error = "Failed to sign check-in transaction"
    /\ HasVault(vaults, result.vaultId)
    /\ LET v == FindVault(vaults, result.vaultId)
       IN  /\ v.isOnChain
           /\ v.status = "active"
           /\ v.txid[1] = "tx"
           /\ v.txid[2] = v.lastCheckIn
    /\ wallet.balanceSats = 150000 - 800

----------------------------------------------------------------------------
(* The anchor after an on-chain action (checked under Spec) *)

\* C21: after a successful on-chain check-in the vault's anchor names the
\* new transaction, the index of its vault output, and that output's value:
\* the value the vault held before, less the fee of the check-in
C21_AnchorUpdated ==
    [][(/\ Finishing
        /\ result'.op = "checkIn"
        /\ result'.success
        /\ result'.txid[1] = "tx")
       => LET k == IndexOf(result'.vaultId)
          IN  /\ vaults'[k].txid = result'.txid
              /\ vaults'[k].vout = 0
              /\ \E feeRate \in FeeRates :
                   LET psbt == buildCheckInPsbt(vaults[k].amountSats, feeRate)
                   IN  /\ psbt.ok
                       /\ vaults'[k].amountSats = psbt.outputs[1]]_vars

----------------------------------------------------------------------------
(* Who may act on a vault (checked under Spec) *)

\* the call that this step completes
Completes(i) ==
    /\ i \in 1..Len(calls)
    /\ calls' = Remove(calls, i)
    /\ result'.op = calls[i].op
    /\ result'.vaultId = calls[i].vaultId

\* C28: a checkIn or cancelVault requested while the connected address is
\* not the vault's ownerAddress leaves the vault collection as it was and
\* credits nothing to the wallet
C28_OwnerOnly ==
    [][\A i \in 1..Len(calls) :
         (/\ Completes(i)
          /\ calls[i].op \in {"checkIn", "cancelVault"}
          /\ calls[i].wallet.address # calls[i].vault.ownerAddress)
         => /\ vaults' = vaults
            /\ wallet'.balanceSats = wallet.balanceSats]_vars


\* C22: a successful cancelVault of an active or warning vault sets the
\* vault cancelled and returns its value to the owner: the wallet that is
\* credited is the owner's, and its balance grows by exactly amountSats
C22_CancelReturnsValue ==
    [][(/\ Finishing
        /\ result'.op = "cancelVault"
        /\ result'.success
        /\ result'.reqStatus \in {"active", "warning"})
       => LET k == IndexOf(result'.vaultId)
          IN  /\ vaults'[k].status = "cancelled"
              /\ wallet'.address = vaults[k].ownerAddress
              /\ wallet'.balanceSats = wallet.balanceSats + vaults[k].amountSats]_vars

----------------------------------------------------------------------------
(* The framing of spells (checked under SpecBuilder) *)

\* the script framed by this call and the payload it was given
Framed == built.op = "opReturn" /\ built.ok

\* C23: the frame of a payload of n bytes is OP_RETURN, then a direct length
\* byte n when n <= 75, OP_PUSHDATA1 and the length byte n when
\* 76 <= n <= 255, OP_PUSHDATA2 and two bytes that encode n (low byte first)
\* when 256 <= n <= 65535; the payload follows unchanged, so the script is
\* the header and n bytes long
C23_Framing ==
    (Framed /\ Len(built.data) <= 65535)
    => LET n == Len(built.data)
           script == built.script
           header == IF n <= 75 THEN 2 ELSE IF n <= 255 THEN 3 ELSE 4
       IN  /\ script[1] = OP_RETURN
           /\ n <= 75 => script[2] = n
           /\ (76 <= n /\ n <= 255)
                => script[2] = OP_PUSHDATA1 /\ script[3] = n
           /\ 256 <= n
                => /\ script[2] = OP_PUSHDATA2
                   /\ script[3] + 256 * script[4] = n
           /\ Len(script) = header + n
           /\ SubSeq(script, header + 1, Len(script)) = built.data

\* a payload of 256 bytes was framed with the two-byte length 00 01
C23_Witness ==
    /\ Framed
    /\ Len(built.data) = 256
    /\ SubSeq(built.script, 1, 4) = <<OP_RETURN, OP_PUSHDATA2, 0, 1>>
    /\ Len(built.script) = 260

\* C24: a payload longer than 65535 bytes is refused with PayloadTooLarge
\* and no script is built; no frame carries a length other than that of
\* its payload
C24_PayloadTooLarge ==
    (built.op = "opReturn" /\ Len(built.data) > 65535)
    => /\ ~built.ok
       /\ ErrorKind(built.error) = "PayloadTooLarge"

----------------------------------------------------------------------------
(* What the ledger holds (checked under SpecCreate) *)

\* C26: every vault of the ledger has shares between 0 and 100 that sum to
\* 100 and a positive amountSats: a request that is otherwise adds no vault
C26_ValidVaults ==
    \A k \in 1..Len(vaults) :
        /\ \A b \in 1..Len(vaults[k].beneficiaries) :
              vaults[k].beneficiaries[b].percentage \in 0..100
        /\ totalPercentage(vaults[k].beneficiaries) = 100
        /\ vaults[k].amountSats > 0

----------------------------------------------------------------------------
(* The claimable vaults of the connected address (checked under Spec) *)

\* vault v names the address among its beneficiaries, whatever the case of
\* the letters
Names(v, addr) ==
    \E b \in 1..Len(v.beneficiaries) :
        toLowerCase(v.beneficiaries[b].address) = toLowerCase(addr)

\* C27: claimableVaults holds exactly the vaults that are triggered and name
\* the connected address among their beneficiaries, each once; it is empty
\* when no address is connected; it is so after every change of the vaults
\* or of the address
C27_ClaimableIndex ==
    /\ wallet.address = NoAddress => claimableVaults = <<>>
    /\ \A j \in 1..Len(claimableVaults) :
          /\ \E k \in 1..Len(vaults) : vaults[k] = claimableVaults[j]
          /\ \A i \in 1..Len(claimableVaults) :
                claimableVaults[i].id = claimableVaults[j].id => i = j
    /\ \A k \in 1..Len(vaults) :
          (\E j \in 1..Len(claimableVaults) : claimableVaults[j] = vaults[k])
          <=> /\ wallet.address # NoAddress
              /\ vaults[k].status = "triggered"
              /\ Names(vaults[k], wallet.address)

\* the heir tb1qheir is connected and the triggered vault that lists
\* TB1QHEIR is the one claimable vault
C27_Witness ==
    /\ wallet.address = "tb1qheir"
    /\ Len(claimableVaults) = 1
    /\ claimableVaults[1].status = "triggered"
    /\ \E b \in 1..Len(claimableVaults[1].beneficiaries) :
          claimableVaults[1].beneficiaries[b].address = "TB1QHEIR"

----------------------------------------------------------------------------
(* Fees (checked under SpecBuilder) *)

\* the size a builder estimates: 68 for each input, 31 for each value output
\* it plans (create: vault and change; claim: beneficiary and remainder;
\* check-in and cancel: one) and 100 or 50 for the OP_RETURN output
EstimatedVsize ==
    CASE built.op = "createVault" -> 68 * Len(built.utxos) + 2 * 31 + 100
      [] built.op = "claimVault" -> 68 + 2 * 31 + 50
      [] OTHER -> 68 + 31 + 50

----------------------------------------------------------------------------
(* The refresh of the statuses (checked under SpecStatus) *)

\* C30: a refresh changes nothing of a vault but its status, and a refresh
\* that follows a refresh at the same current time changes nothing at all
C30_RefreshIdempotent ==
    [][now' = now
       => /\ Len(vaults') = Len(vaults)
          /\ \A k \in 1..Len(vaults) :
                [vaults'[k] EXCEPT !.status = vaults[k].status] = vaults[k]
          /\ derived # NoDerived => vaults' = vaults]_vars

\* the refresh has run twice at a time when the inactivity period of the
\* vault is over: the vault is triggered and is otherwise as it was stored
C30_Witness ==
    /\ derived.again
    /\ derived.in = <<"triggered">>
    /\ derived.out = <<"triggered">>
    /\ Remaining(vaults[1], now) <= 0
    /\ \E period \in LongPeriodChoices, t \in {0, 3} :
          vaults[1] = StoredVault(period, t, "triggered")

----------------------------------------------------------------------------
(* The two status derivations (checked under SpecStatus) *)

\* C31: for a vault that is not claimed or cancelled, checkVaultStatus
\* returns at every current time the status that the refresh has written,
\* also when exactly 7 days remain
C31_DerivationsAgree ==
    derived.charms # <<>>
    => \A i \in 1..Len(vaults) :
          vaults[i].status \notin Terminal
          => derived.charms[i] = vaults[i].status

----------------------------------------------------------------------------
(* What a vault pays out (checked under Spec) *)

\* C32: the sats credited to wallet balances on account of one vault, over
\* all the claims and cancellations of it, repeated or concurrent, never
\* exceed the vault's amountSats
C32_PaidAtMostOnce ==
    \A k \in 1..Len(vaults) : paid[vaults[k].id] <= vaults[k].amountSats

----------------------------------------------------------------------------
(* Interleavings of the handlers and the refresh (checked under Spec) *)

\* C33: no step takes a vault from triggered back to active or warning, not
\* even the completion of a checkIn that was started before the refresh
\* marked the vault triggered
C33_NoReturnFromTriggered ==
    [][\A k \in 1..Len(vaults) :
          vaults[k].status = "triggered"
          => /\ Len(vaults') >= k
             /\ vaults'[k].id = vaults[k].id
             /\ vaults'[k].status \notin {"active", "warning"}]_vars


\* C34: a vault that has been claimed is in the claimable vaults of no
\* address from then on, whatever is done to it and however long the clock
\* runs
C34_ClaimedLeavesIndex ==
    \A k \in everClaimed :
        \A j \in 1..Len(claimableVaults) : claimableVaults[j].id # vaults[k].id

----------------------------------------------------------------------------
(* The vault id in the spells (checked under Spec) *)

\* C35: the vault id written into the spell of a completed createVault,
\* checkIn, claimVault or cancelVault is the id under which the ledger holds
\* the vault
C35_SameVaultId ==
    (result.success /\ result.spellVaultId # <<>>)
    => /\ HasVault(vaults, result.vaultId)
       /\ result.spellVaultId = <<result.vaultId>>

----------------------------------------------------------------------------
(* What an action leaves alone (checked under SpecFrame) *)

\* C36: a step of checkIn, claimVault or cancelVault on one vault adds no
\* vault and removes none, and leaves every other vault of the collection
\* as it was, also while a call on another vault is awaiting
C36_OtherVaultsUnchanged ==
    [][/\ Len(vaults') = Len(vaults)
       /\ \A k \in 1..Len(vaults) :
             ~(Finishing /\ result'.vaultId = vaults[k].id)
             => vaults'[k] = vaults[k]]_vars

\* a check-in on vault 1 has completed while a call on vault 2 is awaiting:
\* vault 1 is checked in and vault 2 is as it was stored
C36_Witness ==
    /\ result.op = "checkIn"
    /\ result.success
    /\ result.vaultId = 1
    /\ \E j \in 1..Len(calls) : calls[j].vaultId = 2
    /\ Len(vaults) = 2
    /\ vaults[1].txid = result.txid
    /\ vaults[2].status = "triggered"
    /\ vaults[2].lastCheckIn = 0
    /\ vaults[2].txid \in {<<"tx", 0>>, <<"demo_tx", 0>>}

====
